---- MODULE Spec2Model ----
(***************************************************************************)
(* Model of turing.py: parse_turing_machine (the line grammar, the         *)
(* transition table, the alphabet, the states and the initial state) and   *)
(* simulate_turing_machine (the step loop and the final blank trimming),   *)
(* run one after the other as the __main__ block does.                     *)
(*                                                                         *)
(* A line of text is a sequence of one-character strings; a state name is  *)
(* such a sequence too; a symbol is a one-character string.                *)
(***************************************************************************)
EXTENDS Integers, Sequences, FiniteSets, TLC

VARIABLES
    file,            \* the lines of the description file (f, line 112)
    input,           \* "".join(args.input): the initial tape (line 210)
    tape,            \* m_tape / tape: the deque of symbols
    pc,              \* position of the program
    lineno,          \* number of lines of the file already consumed
    states,          \* parse_turing_machine: states
    alphabet,        \* parse_turing_machine: alphabet
    transitions,     \* parse_turing_machine: transitions
    initial_state,   \* parse_turing_machine: initial_state (Unbound before)
    stderr,          \* the ERROR / WARNING lines printed to stderr
    m_machine,       \* what parse_turing_machine returned to __main__
    current_state,   \* simulate_turing_machine: current_state
    current_index,   \* simulate_turing_machine: current_index
    lookups,         \* number of table lookups of line 45 (saturating)
    halt_tape,       \* the tape when the step loop was left
    m_final_state    \* what simulate_turing_machine returned as the state

vars == <<file, input, tape, pc, lineno, states, alphabet, transitions,
          initial_state, stderr, m_machine, current_state, current_index,
          lookups, halt_tape, m_final_state>>

(***************************************************************************)
(* Bounds of the model.                                                    *)
(***************************************************************************)
MaxLines == 3        \* lines in a description file
MaxInput == 3        \* cells of the initial tape
MaxTape == 5         \* cells of the tape during a run
MaxFairLines == 2    \* lines in a description file, runs under fairness
MaxTailLen == 5      \* characters after the head of a line read alone
MaxLookups == 2      \* the lookup counter saturates here

(***************************************************************************)
(* Values.                                                                 *)
(***************************************************************************)
Blank == " "
Whitespace == {" "}
EOL == ""            \* read beyond the end of a line: equal to no character
NoneVal == "None"    \* Python's None for an unmatched regex group
NoMatch == [matched |-> FALSE]   \* regex.match(...) returned None
Unbound == <<>>      \* a local that was never assigned
NotReturned == [returned |-> FALSE]

\* The lines a description file is made of.
IncLine1 == <<"q","0",",","1",":",">",",","q","0">>
IncLine2 == <<"q","0",","," ",":","1",",","q","f">>
DupLine1 == <<"q","0",",","a",":","b",",",">",",","q","1">>
DupLine2 == <<"q","0",",","a",":","c",",","<",",","q","2">>
BadLine == <<"q","0",",","a">>
CommentLine == <<" ","#"," ","c">>
BlankLine == <<" "," ">>
StayLine == <<"q","0",",","1",":","1",",","q","0">>
LeftLine == <<"q","f",",","1",":"," ",",","<",",","q","0","\n">>

Lines == {IncLine1, IncLine2, DupLine1, DupLine2, BadLine, CommentLine,
          BlankLine, StayLine, LeftLine}

TapeSymbols == {"1", Blank}

RECURSIVE SeqsUpTo(_, _)
SeqsUpTo(S, n) ==
    IF n = 0 THEN {<<>>}
    ELSE LET shorter == SeqsUpTo(S, n - 1)
         IN  shorter \cup {Append(s, x) : s \in shorter, x \in S}

Min(S) == CHOOSE x \in S : \A y \in S : x <= y
Max(S) == CHOOSE x \in S : \A y \in S : x >= y

(***************************************************************************)
(* str.strip and str.rstrip.                                               *)
(***************************************************************************)
IsSpace(c) == c \in Whitespace \cup {"\n"}

strip(s) ==
    LET solid == {i \in 1..Len(s) : ~IsSpace(s[i])}
    IN  IF solid = {} THEN <<>> ELSE SubSeq(s, Min(solid), Max(solid))

rstrip(s) ==
    LET solid == {i \in 1..Len(s) : ~IsSpace(s[i])}
    IN  IF solid = {} THEN <<>> ELSE SubSeq(s, 1, Max(solid))

(***************************************************************************)
(* The regular expression of line 104, matched at the start of the line    *)
(* as re.match does, with Python's order of alternatives: a greedy         *)
(* ([^#]+) that gives characters back, then each optional group tried      *)
(* present before absent.                                                  *)
(***************************************************************************)
At(s, i) == IF i \in 1..Len(s) THEN s[i] ELSE EOL

\* Length of the run of characters other than # that starts at p: [^#]+
RunLen(s, p) ==
    LET hashes == {j \in p..Len(s) : s[j] = "#"}
    IN  IF hashes = {} THEN Len(s) - p + 1 ELSE Min(hashes) - p

\* The group of symbol_out with a negative lookahead, (?!,[<>]).
SymbolOutAtNotFollowed(s, p) ==
    /\ At(s, p) # EOL
    /\ At(s, p + 1) = ","
    /\ \/ At(s, p) \notin {"<", ">"}
       \/ At(s, p + 2) \notin {"<", ">"}

\* (?:([^<>]|[<>](?=,[<>])),)  at p
SymbolOutAt(s, p) ==
    /\ At(s, p) # EOL
    /\ At(s, p + 1) = ","
    /\ \/ At(s, p) \notin {"<", ">"}
       \/ At(s, p + 2) \in {"<", ">"}

\* (?:([<>]),)  at p
MovementAt(s, p) ==
    /\ At(s, p) \in {"<", ">"}
    /\ At(s, p + 1) = ","

\* (?!\s*$)([^#]+)  at p
StateOutAt(s, p) ==
    /\ \E j \in p..Len(s) : ~IsSpace(s[j])
    /\ RunLen(s, p) >= 1

\* The last three groups of the match whose ":" is at p - 1, or NoMatch.
TailGroups(s, p) ==
    LET out(q) == SubSeq(s, q, q + RunLen(s, q) - 1)
    IN  IF SymbolOutAt(s, p) /\ MovementAt(s, p + 2) /\ StateOutAt(s, p + 4)
        THEN [matched |-> TRUE, symbol_out |-> s[p], movement |-> s[p + 2],
              state_out |-> out(p + 4)]
        ELSE IF SymbolOutAt(s, p) /\ StateOutAt(s, p + 2)
        THEN [matched |-> TRUE, symbol_out |-> s[p], movement |-> NoneVal,
              state_out |-> out(p + 2)]
        ELSE IF MovementAt(s, p) /\ StateOutAt(s, p + 2)
        THEN [matched |-> TRUE, symbol_out |-> NoneVal, movement |-> s[p],
              state_out |-> out(p + 2)]
        ELSE IF StateOutAt(s, p)
        THEN [matched |-> TRUE, symbol_out |-> NoneVal, movement |-> NoneVal,
              state_out |-> out(p)]
        ELSE NoMatch

\* regex.match(lin): the five groups, or NoMatch when the line does not match.
RegexMatch(s) ==
    LET heads == {i \in 1..RunLen(s, 1) :
                    /\ At(s, i + 1) = ","
                    /\ At(s, i + 2) \notin {EOL, "\n"}
                    /\ At(s, i + 3) = ":"
                    /\ TailGroups(s, i + 4).matched}
    IN  IF heads = {} THEN NoMatch
        ELSE LET i == Max(heads)
                 t == TailGroups(s, i + 4)
             IN  [matched |-> TRUE,
                  state_in |-> SubSeq(s, 1, i), symbol_in |-> s[i + 2],
                  symbol_out |-> t.symbol_out, movement |-> t.movement,
                  state_out |-> t.state_out]

\* Lines 116-118: the line is blank or a comment and is skipped.
IsSkipped(line) ==
    LET lin == strip(line)
    IN  IF lin = <<>> THEN TRUE ELSE lin[1] = "#"

\* Lines 129-146 without the default of lines 143-144.
ParsedRuleNoDefault(line) ==
    CHOOSE rule \in
        {[state_in |-> g.state_in, symbol_in |-> g.symbol_in,
          symbol_out |-> g.symbol_out,
          movement |-> g.movement, state_out |-> rstrip(g.state_out)] :
            g \in {RegexMatch(lin) : lin \in {strip(line)}}} : TRUE

\* Lines 129-146: the rule of a line that matched, after the rstrip of the
\* destination state and the default of symbol_out.
ParsedRule(line) ==
    CHOOSE rule \in
        {[state_in |-> g.state_in, symbol_in |-> g.symbol_in,
          symbol_out |-> IF g.symbol_out = NoneVal THEN g.symbol_in
                         ELSE g.symbol_out,
          movement |-> g.movement, state_out |-> rstrip(g.state_out)] :
            g \in {RegexMatch(lin) : lin \in {strip(line)}}} : TRUE

(***************************************************************************)
(* parse_turing_machine, one action per iteration of the loop of line 113. *)
(***************************************************************************)
\* The line the loop of line 113 is about to process (enumerate's lineno is
\* the model's lineno, 0-based).
CurrentLine == file[lineno + 1]

\* Line 138 printing enumerate's 0-based index.
ReportedLineZeroBased(n) == n

\* Line 138: the line number printed with a syntax error.
ReportedLine(n) == n + 1

\* Lines 141-142 without the test of the empty states set.
NextInitialStateLast(sts, init, state_in) == state_in

\* Lines 141-142: the initial state after a rule line.
NextInitialState(sts, init, state_in) ==
    IF sts = {} THEN state_in ELSE init

\* Line 146 adding the source state only.
NextStatesSourceOnly(sts, rule) == sts \cup {rule.state_in}

\* Line 146: states.update([state_in, state_out])
NextStates(sts, rule) == sts \cup {rule.state_in, rule.state_out}

\* Line 147: alphabet.update([symbol_in, symbol_out])
NextAlphabet(alpha, rule) == alpha \cup {rule.symbol_in, rule.symbol_out}

\* Line 148: the key of the rule is already in the table.
IsDuplicate(table, rule) ==
    <<rule.state_in, rule.symbol_in>> \in DOMAIN table

\* Line 157 keeping the rule already stored under the key.
StoreKeepFirst(table, rule) ==
    LET key == <<rule.state_in, rule.symbol_in>>
    IN  [k \in DOMAIN table \cup {key} |->
            IF k \in DOMAIN table
            THEN table[k]
            ELSE <<rule.symbol_out, rule.movement, rule.state_out>>]

\* Line 157: transitions[(state_in, symbol_in)] = (symbol_out, movement,
\* state_out)
Store(table, rule) ==
    LET key == <<rule.state_in, rule.symbol_in>>
    IN  [k \in DOMAIN table \cup {key} |->
            IF k = key
            THEN <<rule.symbol_out, rule.movement, rule.state_out>>
            ELSE table[k]]

\* Lines 116-118: a blank line or a comment.
SkipLine ==
    /\ pc = "parse"
    /\ lineno < Len(file)
    /\ IsSkipped(CurrentLine)
    /\ lineno' = lineno + 1
    /\ UNCHANGED <<file, input, tape, pc, states, alphabet, transitions,
                   initial_state, stderr, m_machine, current_state,
                   current_index, lookups, halt_tape, m_final_state>>

\* Lines 129-157: a line that matches the grammar.
RuleLine ==
    /\ pc = "parse"
    /\ lineno < Len(file)
    /\ ~IsSkipped(CurrentLine)
    /\ \E lin \in {strip(CurrentLine)} : RegexMatch(lin).matched
    /\ \E rule \in {ParsedRule(CurrentLine)} :
           /\ initial_state' =
                 NextInitialState(states, initial_state, rule.state_in)
           /\ states' = NextStates(states, rule)
           /\ alphabet' = NextAlphabet(alphabet, rule)
           /\ stderr' =
                 IF IsDuplicate(transitions, rule)
                 THEN Append(stderr,
                             [kind |-> "WARNING",
                              line |-> ReportedLine(lineno),
                              key |-> <<rule.state_in, rule.symbol_in>>])
                 ELSE stderr
           /\ transitions' = Store(transitions, rule)
    /\ lineno' = lineno + 1
    /\ UNCHANGED <<file, input, tape, pc, m_machine, current_state, current_index,
                   lookups, halt_tape, m_final_state>>

\* Lines 137-139: regex.match returned None, .groups() raised
\* AttributeError; the error is printed and the process exits with code 1.
SyntaxError ==
    /\ pc = "parse"
    /\ lineno < Len(file)
    /\ ~IsSkipped(CurrentLine)
    /\ \E lin \in {strip(CurrentLine)} : ~RegexMatch(lin).matched
    /\ stderr' = Append(stderr,
                        [kind |-> "ERROR", line |-> ReportedLine(lineno)])
    /\ pc' = "syntax_error"
    /\ UNCHANGED <<file, input, tape, lineno, states, alphabet, transitions,
                   initial_state, m_machine, current_state, current_index,
                   lookups, halt_tape, m_final_state>>

\* Line 166 without the discard.
DiscardBlankForgotten(alpha) == alpha

\* Line 166: alphabet.discard(" ")
DiscardBlank(alpha) == alpha \ {Blank}

\* Lines 166-175 when the file is exhausted: the blank leaves the alphabet,
\* the summary is printed and the four items are returned.  The summary reads
\* initial_state: when no rule line assigned it, line 171 raises
\* UnboundLocalError and nothing is returned.
ParseEnd ==
    /\ pc = "parse"
    /\ lineno = Len(file)
    /\ alphabet' = DiscardBlank(alphabet)
    /\ IF initial_state = Unbound
       THEN /\ pc' = "unbound_error"
            /\ UNCHANGED m_machine
       ELSE /\ pc' = "parsed"
            /\ m_machine' = [returned |-> TRUE,
                             alphabet |-> alphabet',
                             states |-> states,
                             initial_state |-> initial_state,
                             transitions |-> transitions]
    /\ UNCHANGED <<file, input, tape, lineno, states, transitions, initial_state,
                   stderr, current_state, current_index, lookups, halt_tape,
                   m_final_state>>

(***************************************************************************)
(* simulate_turing_machine.  current_index is 0-based as in the source;    *)
(* the cell under the head is tape[current_index + 1].                     *)
(***************************************************************************)
\* Line 30 without the test of the empty tape.
IsEmptyTapeNever(t) == FALSE

\* Line 30: not tape
IsEmptyTape(t) == t = <<>>

\* Line 45 with a limit on the number of steps.
HasRuleStepLimit(table, state, symbol) ==
    <<state, symbol>> \in DOMAIN table /\ lookups < MaxLookups

\* Line 45 with a blank under the head taken as a halt.
HasRuleBlankHalts(table, state, symbol) ==
    <<state, symbol>> \in DOMAIN table /\ symbol # Blank

\* Line 45: (current_state, tape[current_index]) in transitions
HasRule(table, state, symbol) == <<state, symbol>> \in DOMAIN table

\* Lines 53-56 with the two directions exchanged.
MovedMirrored(index, movement) ==
    IF movement = ">" THEN index - 1
    ELSE IF movement = "<" THEN index + 1
    ELSE index

\* Lines 53-56: the head after the move.
Moved(index, movement) ==
    IF movement = ">" THEN index + 1
    ELSE IF movement = "<" THEN index - 1
    ELSE index

\* Lines 58-63 without the append of lines 62-63.
GrownNoAppend(t, index) ==
    IF index < 0 THEN <<Blank>> \o t ELSE t

\* Lines 58-63: the tape after the overflow handling.
Grown(t, index) ==
    IF index < 0 THEN <<Blank>> \o t
    ELSE IF index = Len(t) THEN Append(t, Blank)
    ELSE t

\* Lines 58-60: the head after the overflow handling.
Clamped(index) == IF index < 0 THEN 0 ELSE index

\* Line 78: tape and tape[-1] == " "
TrailingBlank(t) == t # <<>> /\ t[Len(t)] = Blank

\* Line 81 without the loop that pops the leading blanks.
LeadingBlankNever(t) == FALSE

\* Line 81: tape and tape[0] == " "
LeadingBlank(t) == t # <<>> /\ t[1] = Blank

Count(n) == IF n < MaxLookups THEN n + 1 ELSE n

\* Lines 216-217 and 30-34: the call, the early return on an empty tape.
SimStart ==
    /\ pc = "parsed"
    /\ IF IsEmptyTape(tape)
       THEN /\ m_final_state' = m_machine.initial_state
            /\ tape' = <<>>
            /\ pc' = "done"
            /\ UNCHANGED <<current_state, current_index>>
       ELSE /\ current_state' = m_machine.initial_state
            /\ current_index' = 0
            /\ pc' = "loop"
            /\ UNCHANGED <<tape, m_final_state>>
    /\ UNCHANGED <<file, input, lineno, states, alphabet, transitions,
                   initial_state, stderr, m_machine, lookups, halt_tape>>

\* Lines 45-65: one iteration of the step loop.
SimStep ==
    /\ pc = "loop"
    /\ HasRule(m_machine.transitions, current_state, tape[current_index + 1])
    /\ LET next_transition ==
               m_machine.transitions[<<current_state,
                                       tape[current_index + 1]>>]
           output_symbol == next_transition[1]
           movement_direction == next_transition[2]
           next_state == next_transition[3]
           written == [tape EXCEPT ![current_index + 1] = output_symbol]
           index == Moved(current_index, movement_direction)
       IN  /\ Len(Grown(written, index)) <= MaxTape
           /\ tape' = Grown(written, index)
           /\ current_index' = Clamped(index)
           /\ current_state' = next_state
    /\ lookups' = Count(lookups)
    /\ UNCHANGED <<file, input, pc, lineno, states, alphabet, transitions,
                   initial_state, stderr, m_machine, halt_tape, m_final_state>>

\* Line 45 evaluating to false: the loop is left.
SimHalt ==
    /\ pc = "loop"
    /\ ~HasRule(m_machine.transitions, current_state, tape[current_index + 1])
    /\ lookups' = Count(lookups)
    /\ halt_tape' = tape
    /\ pc' = "trim_right"
    /\ UNCHANGED <<file, input, tape, lineno, states, alphabet, transitions,
                   initial_state, stderr, m_machine, current_state,
                   current_index, m_final_state>>

\* Line 78 as an if: after one pop the first trimming loop is over.
AfterTrailingPopOnce == "trim_left"

\* Line 78 is a while: after a pop the test of line 78 is made again.
AfterTrailingPop == "trim_right"

\* Lines 78-79: one test of the first trimming loop.
TrimRight ==
    /\ pc = "trim_right"
    /\ IF TrailingBlank(tape)
       THEN /\ tape' = SubSeq(tape, 1, Len(tape) - 1)
            /\ pc' = AfterTrailingPop
       ELSE /\ pc' = "trim_left"
            /\ UNCHANGED tape
    /\ UNCHANGED <<file, input, lineno, states, alphabet, transitions,
                   initial_state, stderr, m_machine, current_state,
                   current_index, lookups, halt_tape, m_final_state>>

\* Lines 81-84: one test of the second trimming loop, then the return.
TrimLeft ==
    /\ pc = "trim_left"
    /\ IF LeadingBlank(tape)
       THEN /\ tape' = Tail(tape)
            /\ UNCHANGED <<pc, m_final_state>>
       ELSE /\ pc' = "done"
            /\ m_final_state' = current_state
            /\ UNCHANGED tape
    /\ UNCHANGED <<file, input, lineno, states, alphabet, transitions,
                   initial_state, stderr, m_machine, current_state,
                   current_index, lookups, halt_tape>>

TypeOK ==
    /\ pc \in {"parse", "syntax_error", "unbound_error", "parsed", "loop",
               "trim_right", "trim_left", "done"}
    /\ lineno \in 0..Len(file)
    /\ current_index \in Nat
    /\ lookups \in 0..MaxLookups

Init ==
    /\ file \in SeqsUpTo(Lines, MaxLines)
    /\ input \in SeqsUpTo(TapeSymbols, MaxInput)
    /\ tape = input
    /\ pc = "parse"
    /\ lineno = 0
    /\ states = {}
    /\ alphabet = {}
    /\ transitions = <<>>
    /\ initial_state = Unbound
    /\ stderr = <<>>
    /\ m_machine = NotReturned
    /\ current_state = Unbound
    /\ current_index = 0
    /\ lookups = 0
    /\ halt_tape = <<>>
    /\ m_final_state = Unbound

Next ==
    \/ SkipLine
    \/ RuleLine
    \/ SyntaxError
    \/ ParseEnd
    \/ SimStart
    \/ SimStep
    \/ SimHalt
    \/ TrimRight
    \/ TrimLeft

Spec == Init /\ [][Next]_vars

(***************************************************************************)
(* Properties of simulate_turing_machine.                                  *)
(***************************************************************************)
\* The key the loop of line 45 looks up in the configuration of the state.
UnderHead == tape[current_index + 1]
KeyPresent == <<current_state, UnderHead>> \in DOMAIN m_machine.transitions

\* C1: the step loop is left only from a configuration whose (current_state,
\* tape[head]) is not a key of the table; while the key is present the only
\* step is another iteration; the tape and the state of the configuration in
\* which the loop was left are what the trimming starts from, and the state
\* returned is the current_state of that configuration.
HaltOnlyWithoutRule ==
    [][/\ (pc = "loop" /\ KeyPresent) => pc' = "loop"
       /\ (pc = "loop" /\ pc' # "loop") =>
              /\ ~KeyPresent
              /\ pc' = "trim_right"
              /\ current_state' = current_state
              /\ tape' = tape
       /\ pc \in {"trim_right", "trim_left"} =>
              /\ pc' \in {"trim_right", "trim_left", "done"}
              /\ current_state' = current_state
              /\ (pc' = "done" => m_final_state' = current_state)
       /\ (pc # "loop" /\ pc' = "loop") => (pc = "parsed" /\ tape # <<>>)
      ]_vars

\* A run that took steps and halted in another state than the initial one.
HaltOnlyWithoutRuleWitness ==
    /\ pc = "done"
    /\ input # <<>>
    /\ lookups >= 2
    /\ m_final_state # m_machine.initial_state
    /\ <<m_final_state, halt_tape[current_index + 1]>>
           \notin DOMAIN m_machine.transitions

\* C2: in every state of the simulation loop the tape is not empty and the
\* head is an index of the tape.
HeadWithinTape ==
    pc = "loop" =>
        /\ tape # <<>>
        /\ current_index >= 0
        /\ current_index < Len(tape)

\* The head on a blank cell appended at the right end by an earlier step.
HeadWithinTapeWitness ==
    /\ pc = "loop"
    /\ lookups >= 1
    /\ Len(tape) > Len(input)
    /\ current_index = Len(tape) - 1
    /\ current_index > 0
    /\ UnderHead = Blank

\* C3: called with an empty tape, simulate_turing_machine returns at once
\* the initial state and an empty tape, without any lookup or step.
EmptyTapeReturnsAtOnce ==
    [][(pc = "parsed" /\ tape = <<>>) =>
           /\ pc' = "done"
           /\ m_final_state' = m_machine.initial_state
           /\ tape' = <<>>
           /\ lookups' = 0
           /\ current_state' = current_state
           /\ current_index' = current_index
      ]_vars

\* The early return with a table that has a rule for (initial_state, blank).
EmptyTapeReturnsAtOnceWitness ==
    /\ pc = "done"
    /\ input = <<>>
    /\ tape = <<>>
    /\ lookups = 0
    /\ m_final_state = m_machine.initial_state
    /\ <<m_machine.initial_state, Blank>> \in DOMAIN m_machine.transitions

\* The tape t without its blanks before the first and after the last
\* non-blank cell.
BetweenNonBlanks(t) ==
    LET solid == {i \in 1..Len(t) : t[i] # Blank}
    IN  IF solid = {} THEN <<>> ELSE SubSeq(t, Min(solid), Max(solid))

\* C4: the tape returned after a halt is the tape of the halting
\* configuration from its first to its last non-blank cell, interior blanks
\* kept: it is empty, or its first and last cells are not blank.
ReturnedTapeIsTrimmed ==
    (pc = "done" /\ input # <<>>) =>
        /\ tape = BetweenNonBlanks(halt_tape)
        /\ \/ tape = <<>> /\ \A i \in 1..Len(halt_tape) : halt_tape[i] = Blank
           \/ tape # <<>> /\ tape[1] # Blank /\ tape[Len(tape)] # Blank

\* A halt on a tape with blanks at both ends and a non-blank cell between.
ReturnedTapeIsTrimmedWitness ==
    /\ pc = "done"
    /\ input # <<>>
    /\ tape # <<>>
    /\ halt_tape[1] = Blank
    /\ halt_tape[Len(halt_tape)] = Blank
    /\ Len(tape) + 2 <= Len(halt_tape)

\* C5: the unary increment machine on the tape 1,1,1 halts in qf with the
\* tape 1,1,1,1.
UnaryIncrement ==
    (/\ file = <<IncLine1, IncLine2>>
     /\ input = <<"1", "1", "1">>) =>
        /\ pc \notin {"syntax_error", "unbound_error"}
        /\ pc \notin {"parse"} =>
              /\ m_machine.initial_state = <<"q", "0">>
              /\ m_machine.transitions =
                    (<<<<"q", "0">>, "1">> :> <<"1", ">", <<"q", "0">>>>)
                    @@ (<<<<"q", "0">>, Blank>> :> <<"1", NoneVal, <<"q", "f">>>>)
        /\ pc = "done" =>
              /\ m_final_state = <<"q", "f">>
              /\ tape = <<"1", "1", "1", "1">>

\* The unary increment machine has halted.
UnaryIncrementWitness ==
    /\ file = <<IncLine1, IncLine2>>
    /\ input = <<"1", "1", "1">>
    /\ pc = "done"

(***************************************************************************)
(* Properties of parse_turing_machine.  They are stated on the file: which *)
(* of its lines are rule lines, what each says, which is the first that    *)
(* does not match.                                                         *)
(***************************************************************************)
IsRuleAt(k) == ~IsSkipped(file[k]) /\ RegexMatch(strip(file[k])).matched
IsBadAt(k) == ~IsSkipped(file[k]) /\ ~RegexMatch(strip(file[k])).matched

\* The groups of rule line k, symbol_out defaulted and state_out
\* right-trimmed.
GroupsAt(k) ==
    LET g == RegexMatch(strip(file[k]))
    IN  [key |-> <<g.state_in, g.symbol_in>>,
         outcome |-> <<IF g.symbol_out = NoneVal THEN g.symbol_in
                       ELSE g.symbol_out,
                       g.movement, rstrip(g.state_out)>>]

\* The rule lines among the first n lines of the file.
RuleLinesUpTo(n) == {k \in 1..n : IsRuleAt(k)}

\* The 1-based number of the first line that does not match, 0 when none.
FirstBad ==
    LET bad == {k \in 1..Len(file) : IsBadAt(k)}
    IN  IF bad = {} THEN 0 ELSE Min(bad)

\* Rule line k has the key of an earlier rule line.
RepeatsKey(k) ==
    /\ IsRuleAt(k)
    /\ \E j \in RuleLinesUpTo(k - 1) : GroupsAt(j).key = GroupsAt(k).key

\* The line numbers of the WARNING lines of stderr, in order.
WarnedLines ==
    LET isWarning(e) == e.kind = "WARNING"
        warnings == SelectSeq(stderr, isWarning)
    IN  [i \in 1..Len(warnings) |-> warnings[i].line]

\* The rule lines among the first n that repeat a key, in order.
RepeatingLinesUpTo(n) ==
    SelectSeq([k \in 1..n |-> k], RepeatsKey)

\* C6: rule lines that share a key do not make the parse fail; the table
\* maps each key to the outcome of the last rule line that has it; one
\* warning is printed for each rule line whose key was already in the table,
\* with the 1-based number of that line, and no other warning.
DuplicateKeyLastWins ==
    /\ WarnedLines = RepeatingLinesUpTo(lineno)
    /\ \A i \in 1..Len(stderr) :
           stderr[i].kind = "WARNING" =>
               stderr[i].key = GroupsAt(stderr[i].line).key
    /\ DOMAIN transitions = {GroupsAt(k).key : k \in RuleLinesUpTo(lineno)}
    /\ \A k \in RuleLinesUpTo(lineno) :
           LET last == Max({j \in RuleLinesUpTo(lineno) :
                              GroupsAt(j).key = GroupsAt(k).key})
           IN  transitions[GroupsAt(k).key] = GroupsAt(last).outcome
    /\ (FirstBad = 0 /\ RuleLinesUpTo(Len(file)) # {}) =>
           pc \notin {"syntax_error", "unbound_error"}
    /\ m_machine.returned =>
           /\ lineno = Len(file)
           /\ m_machine.transitions = transitions

\* The scenario of the two lines q0,a:b,>,q1 and q0,a:c,<,q2: one warning,
\* for the later line, and the later rule in the table.
DuplicateKeyLastWinsWitness ==
    /\ m_machine.returned
    /\ file = <<DupLine1, CommentLine, DupLine2>>
    /\ WarnedLines = <<3>>
    /\ m_machine.transitions =
           (<<<<"q", "0">>, "a">> :> <<"c", "<", <<"q", "2">>>>)

\* The ERROR lines of stderr.
ErrorLines ==
    LET isError(e) == e.kind = "ERROR"
    IN  SelectSeq(stderr, isError)

\* C7: when line n is the first line that does not match the grammar, the
\* parse stops there with one syntax error that cites n: no line after it is
\* processed, nothing is returned and the simulation is never started.
SyntaxErrorCitesFirstBadLine ==
    /\ FirstBad # 0 =>
           /\ pc \in {"parse", "syntax_error"}
           /\ lineno < FirstBad
           /\ ~m_machine.returned
           /\ lookups = 0
           /\ tape = input
           /\ m_final_state = Unbound
    /\ pc = "syntax_error" =>
           /\ FirstBad # 0
           /\ lineno = FirstBad - 1
           /\ ErrorLines = <<[kind |-> "ERROR", line |-> FirstBad]>>
           /\ stderr[Len(stderr)].kind = "ERROR"
    /\ pc # "syntax_error" => ErrorLines = <<>>

\* The line q0,a at line 3, after a rule line and a comment line.
SyntaxErrorCitesFirstBadLineWitness ==
    /\ pc = "syntax_error"
    /\ file = <<IncLine1, CommentLine, BadLine>>
    /\ stderr = <<[kind |-> "ERROR", line |-> 3]>>

\* C8: parse_turing_machine ends by returning the four items or with a
\* syntax error that carries a line number, and in no other way.
ParseReturnsOrSyntaxError ==
    pc # "parse" =>
        \/ /\ m_machine.returned
           /\ pc \in {"parsed", "loop", "trim_right", "trim_left", "done"}
        \/ /\ ~m_machine.returned
           /\ pc = "syntax_error"
           /\ ErrorLines # <<>>

\* The first rule line of the file, 0 when there is none.
FirstRule ==
    IF RuleLinesUpTo(Len(file)) = {} THEN 0
    ELSE Min(RuleLinesUpTo(Len(file)))

\* C9: the initial state is the state_in of the first rule line; it is
\* assigned by that line, when the states set is empty, and by no line
\* after it; it is a member of the states set.
InitialStateIsFirstRuleState ==
    /\ [](/\ (initial_state = Unbound) = (states = {})
          /\ (initial_state = Unbound) = (RuleLinesUpTo(lineno) = {})
          /\ initial_state # Unbound =>
                 /\ initial_state = GroupsAt(FirstRule).key[1]
                 /\ initial_state \in states
          /\ m_machine.returned =>
                 /\ FirstRule # 0
                 /\ m_machine.initial_state = GroupsAt(FirstRule).key[1]
                 /\ m_machine.initial_state \in m_machine.states)
    /\ [][/\ initial_state # Unbound => initial_state' = initial_state
          /\ initial_state' # initial_state =>
                 (states = {} /\ lineno' = FirstRule)
         ]_vars

\* A file whose first rule line comes after a comment and whose later rule
\* line has another state_in.
InitialStateIsFirstRuleStateWitness ==
    /\ m_machine.returned
    /\ file = <<CommentLine, LeftLine, IncLine1>>
    /\ m_machine.initial_state = <<"q", "f">>
    /\ <<"q", "0">> \in m_machine.states

\* C10: the states of every entry of the returned table are in the returned
\* states set and its symbols are in the returned alphabet or the blank.
TableClosed ==
    m_machine.returned =>
        \A key \in DOMAIN m_machine.transitions :
            LET outcome == m_machine.transitions[key]
            IN  /\ key[1] \in m_machine.states
                /\ outcome[3] \in m_machine.states
                /\ key[2] \in m_machine.alphabet \cup {Blank}
                /\ outcome[1] \in m_machine.alphabet \cup {Blank}

\* A returned table with the blank as a symbol and a destination state that
\* is the source of no rule.
TableClosedWitness ==
    /\ m_machine.returned
    /\ Blank \notin m_machine.alphabet
    /\ \E key \in DOMAIN m_machine.transitions :
           /\ key[2] = Blank
           /\ \A other \in DOMAIN m_machine.transitions :
                  other[1] # m_machine.transitions[key][3]

\* C11: the returned alphabet does not hold the blank, also when a rule line
\* has it as symbol_in or symbol_out, and it holds every other symbol_in and
\* symbol_out of every rule line of the file.
AlphabetWithoutBlank ==
    m_machine.returned =>
        /\ Blank \notin m_machine.alphabet
        /\ \A k \in RuleLinesUpTo(Len(file)) :
               \A symbol \in {GroupsAt(k).key[2], GroupsAt(k).outcome[1]} :
                   symbol # Blank => symbol \in m_machine.alphabet

\* A returned machine with a rule that reads the blank, a rule that writes
\* it, and a rule line whose symbols were overwritten in the table.
AlphabetWithoutBlankWitness ==
    /\ m_machine.returned
    /\ file = <<IncLine2, LeftLine, DupLine1>>
    /\ m_machine.alphabet = {"1", "a", "b"}

(***************************************************************************)
(* The parser on a file of one line.  The line is a head (nothing, or a    *)
(* state_in and a symbol_in up to the colon) followed by every sequence of *)
(* at most MaxTailLen characters of the grammar.                           *)
(***************************************************************************)
LineChars == {"q", ",", ":", "<", ">", " ", "#"}
LineHeads == {<<>>, <<"q", ",", "a", ":">>, <<"q", ",", "<", ":">>}

InitLine ==
    /\ file \in {<<h \o t>> : h \in LineHeads,
                             t \in SeqsUpTo(LineChars, MaxTailLen)}
    /\ input = <<>>
    /\ tape = input
    /\ pc = "parse"
    /\ lineno = 0
    /\ states = {}
    /\ alphabet = {}
    /\ transitions = <<>>
    /\ initial_state = Unbound
    /\ stderr = <<>>
    /\ m_machine = NotReturned
    /\ current_state = Unbound
    /\ current_index = 0
    /\ lookups = 0
    /\ halt_tape = <<>>
    /\ m_final_state = Unbound

NextLine ==
    \/ SkipLine
    \/ RuleLine
    \/ SyntaxError
    \/ ParseEnd

SpecLine == InitLine /\ [][NextLine]_vars

\* The one line of the file as the parser sees it, and whether it was
\* accepted: the loop went past it and stored its rule.
Lin == strip(file[1])
Accepted == Len(file) = 1 /\ lineno = 1 /\ DOMAIN transitions # {}
StoredKey == CHOOSE key \in DOMAIN transitions : TRUE
StoredOutcome == transitions[StoredKey]

\* C12: the state_out stored for an accepted line, in the table and in the
\* states set, is not the empty string.
StateOutNotEmpty ==
    /\ \A key \in DOMAIN transitions : transitions[key][3] # <<>>
    /\ <<>> \notin states

\* The line ends right after the comma of its symbol_out field or of its
\* direction field: state_in , symbol_in : x ,   or   ... : x , d ,
EndsAfterField(lin) ==
    \E i \in 1..Len(lin) :
        /\ \A j \in 1..i : lin[j] # "#"
        /\ At(lin, i + 1) = ","
        /\ At(lin, i + 2) # EOL
        /\ At(lin, i + 3) = ":"
        /\ At(lin, i + 4) # EOL
        /\ At(lin, i + 5) = ","
        /\ \/ Len(lin) = i + 5
           \/ /\ Len(lin) = i + 7
              /\ lin[i + 6] \in {"<", ">"}
              /\ lin[i + 7] = ","

\* C13: a rule line that ends right after its symbol_out field or its
\* direction field is rejected with a syntax error and nothing is stored.
NoDestinationRejected ==
    (Len(file) = 1 /\ EndsAfterField(Lin)) =>
        /\ lineno = 0
        /\ transitions = <<>>
        /\ states = {}
        /\ pc \in {"parse", "syntax_error"}
        /\ pc = "syntax_error" => ErrorLines = <<[kind |-> "ERROR", line |-> 1]>>

(***************************************************************************)
(* What became of the token that follows the colon of an accepted line.    *)
(***************************************************************************)
\* The position of that token in Lin and the token.
TokenAt == Len(StoredKey[1]) + 4
Token == At(Lin, TokenAt)

\* The run of characters other than # that starts at q, right-trimmed.
Rest(q) ==
    IF q > Len(Lin) THEN <<>>
    ELSE rstrip(SubSeq(Lin, q, q + RunLen(Lin, q) - 1))

\* The token is immediately followed by ,< or ,>
FollowedByDirection ==
    At(Lin, TokenAt + 1) = "," /\ At(Lin, TokenAt + 2) \in {"<", ">"}

\* The token was written as symbol_out: what follows its comma is the
\* direction and the state, or the state alone.
TokenIsSymbolOut ==
    /\ StoredOutcome[1] = Token
    /\ At(Lin, TokenAt + 1) = ","
    /\ \/ /\ StoredOutcome[2] = NoneVal
          /\ StoredOutcome[3] = Rest(TokenAt + 2)
       \/ /\ StoredOutcome[2] \in {"<", ">"}
          /\ StoredOutcome[2] = At(Lin, TokenAt + 2)
          /\ At(Lin, TokenAt + 3) = ","
          /\ StoredOutcome[3] = Rest(TokenAt + 4)

\* The token was taken as the direction: symbol_out is the default and the
\* state follows the comma of the token.
TokenIsDirection ==
    /\ StoredOutcome[2] = Token
    /\ StoredOutcome[1] = StoredKey[2]
    /\ At(Lin, TokenAt + 1) = ","
    /\ StoredOutcome[3] = Rest(TokenAt + 2)

\* The token was taken as the first character of state_out.
TokenStartsStateOut ==
    /\ StoredOutcome[2] = NoneVal
    /\ StoredOutcome[1] = StoredKey[2]
    /\ StoredOutcome[3] = Rest(TokenAt)

\* C14 as stated: a token < or > is symbol_out only if it is NOT followed by
\* ,< or ,> and in every other case it is the direction.
SymbolOutOnlyIfNotFollowed ==
    (Accepted /\ Token \in {"<", ">"}) =>
        /\ TokenIsSymbolOut => ~FollowedByDirection
        /\ ~TokenIsSymbolOut => TokenIsDirection

\* C14 amended: a token < or > is symbol_out if and only if it IS followed
\* by ,< or ,>; when it is not and it is followed by a comma and one more
\* character other than #, it is the direction; in the cases that remain it
\* is the first character of state_out.
SymbolOutIffFollowed ==
    (Accepted /\ Token \in {"<", ">"}) =>
        /\ TokenIsSymbolOut <=> FollowedByDirection
        /\ (/\ ~FollowedByDirection
            /\ At(Lin, TokenAt + 1) = ","
            /\ At(Lin, TokenAt + 2) \notin {EOL, "#"}) => TokenIsDirection
        /\ (/\ ~FollowedByDirection
            /\ \/ At(Lin, TokenAt + 1) # ","
               \/ At(Lin, TokenAt + 2) \in {EOL, "#"}) => TokenStartsStateOut
        /\ ~(TokenIsSymbolOut /\ TokenIsDirection)

\* The line q,a:<,<,q : the first < is written, the second is the direction.
SymbolOutIffFollowedWitness ==
    /\ Accepted
    /\ file[1] = <<"q", ",", "a", ":", "<", ",", "<", ",", "q">>
    /\ StoredOutcome = <<"<", "<", <<"q">>>>

\* The line written from a rule: state_in,symbol_in:symbol_out,[direction,]
\* state_out, the direction field left out when the rule is Stay.
Serialize(key, outcome) ==
    key[1] \o <<",", key[2], ":", outcome[1], ",">>
           \o (IF outcome[2] = NoneVal THEN <<>> ELSE <<outcome[2], ",">>)
           \o outcome[3]

\* C15: the line written from the rule of an accepted line is accepted and
\* parses to the same rule.
RoundTrip ==
    Accepted =>
        LET again == Serialize(StoredKey, StoredOutcome)
        IN  /\ ~IsSkipped(again)
            /\ RegexMatch(strip(again)).matched
            /\ ParsedRule(again).state_in = StoredKey[1]
            /\ ParsedRule(again).symbol_in = StoredKey[2]
            /\ ParsedRule(again).symbol_out = StoredOutcome[1]
            /\ ParsedRule(again).movement = StoredOutcome[2]
            /\ ParsedRule(again).state_out = StoredOutcome[3]

(***************************************************************************)
(* The trimming step of lines 77-82 alone, applied to every tape of at     *)
(* most MaxTape cells and then once more to its own result.  input is the  *)
(* tape the first application started from, halt_tape the tape the         *)
(* application in progress started from.                                   *)
(***************************************************************************)
InitTrim ==
    /\ file = <<>>
    /\ input \in SeqsUpTo(TapeSymbols, MaxTape)
    /\ tape = input
    /\ halt_tape = input
    /\ pc = "trim_right"
    /\ lineno = 0
    /\ states = {}
    /\ alphabet = {}
    /\ transitions = <<>>
    /\ initial_state = Unbound
    /\ stderr = <<>>
    /\ m_machine = NotReturned
    /\ current_state = Unbound
    /\ current_index = 0
    /\ lookups = 0
    /\ m_final_state = Unbound

\* Lines 78-82 entered again with the tape the first application returned,
\* when that application changed the tape.
TrimAgain ==
    /\ pc = "done"
    /\ halt_tape = input
    /\ tape # halt_tape
    /\ halt_tape' = tape
    /\ pc' = "trim_right"
    /\ UNCHANGED <<file, input, tape, lineno, states, alphabet, transitions,
                   initial_state, stderr, m_machine, current_state,
                   current_index, lookups, m_final_state>>

NextTrim ==
    \/ TrimRight
    \/ TrimLeft
    \/ TrimAgain

SpecTrim == InitTrim /\ [][NextTrim]_vars

\* C16: the trimming step applied to its own result returns it unchanged.
\* A first application that changed nothing already returned its argument;
\* after one that changed the tape, the second application ends with the
\* tape it started from.
TrimIdempotent ==
    /\ (pc = "done" /\ halt_tape # input) => tape = halt_tape
    /\ (pc = "done" /\ halt_tape = input) => tape = BetweenNonBlanks(input)

\* The second application is over, on a tape the first one had shortened at
\* both ends.
TrimIdempotentWitness ==
    /\ pc = "done"
    /\ halt_tape # input
    /\ tape = halt_tape
    /\ tape # <<>>
    /\ input[1] = Blank
    /\ input[Len(input)] = Blank

\* C19: a step from (q, h, T) whose key maps to (w, d, q') writes w at h,
\* moves the head by d, grows the tape by one blank cell at the left (head
\* back to 0) or at the right when the head left the tape, and by nothing
\* otherwise, then takes q' as the state; no other cell changes.
StepAsSpecified ==
    [][(pc = "loop" /\ pc' = "loop") =>
          LET h == current_index
              rule == m_machine.transitions[<<current_state, tape[h + 1]>>]
              moved == IF rule[2] = ">" THEN h + 1
                       ELSE IF rule[2] = "<" THEN h - 1
                       ELSE h
              left == moved < 0
              right == moved = Len(tape)
              shift == IF left THEN 1 ELSE 0
          IN  /\ KeyPresent
              /\ Len(tape') = Len(tape) + (IF left \/ right THEN 1 ELSE 0)
              /\ \A i \in 1..Len(tape) :
                     tape'[i + shift] = IF i = h + 1 THEN rule[1] ELSE tape[i]
              /\ left => tape'[1] = Blank
              /\ right => tape'[Len(tape')] = Blank
              /\ current_index' = IF left THEN 0 ELSE moved
              /\ current_state' = rule[3]
              /\ rule[2] \in {"<", ">", NoneVal}
      ]_vars

\* After the step of the rule qf,1: ,<,q0 on the tape 1: the blank was
\* written, the head went left of the tape and one blank was prepended.
StepAsSpecifiedWitness ==
    /\ pc = "loop"
    /\ file = <<LeftLine>>
    /\ input = <<"1">>
    /\ tape = <<Blank, Blank>>
    /\ current_index = 0
    /\ current_state = <<"q", "0">>

(***************************************************************************)
(* The program under weak fairness: a single-threaded process that is not  *)
(* blocked takes its next step.                                            *)
(***************************************************************************)
FairLines == {StayLine, IncLine2, LeftLine, CommentLine, BadLine}

InitFair ==
    /\ file \in SeqsUpTo(FairLines, MaxFairLines)
    /\ input \in SeqsUpTo(TapeSymbols, MaxInput)
    /\ tape = input
    /\ pc = "parse"
    /\ lineno = 0
    /\ states = {}
    /\ alphabet = {}
    /\ transitions = <<>>
    /\ initial_state = Unbound
    /\ stderr = <<>>
    /\ m_machine = NotReturned
    /\ current_state = Unbound
    /\ current_index = 0
    /\ lookups = 0
    /\ halt_tape = <<>>
    /\ m_final_state = Unbound

SpecFair == InitFair /\ [][Next]_vars /\ WF_vars(Next)

\* The machine of the single rule (q0,1) -> (1, Stay, q0) on the tape 1.
StayForever == file = <<StayLine>> /\ input = <<"1">>

\* C20: there is no step limit.  The loop is left only without a matching
\* rule and is then left for good: from a configuration without a matching
\* rule the run reaches the return; the machine (q0,1) -> (1, Stay, q0) on
\* the tape 1 never leaves the loop and returns nothing; once the loop is
\* left the trimming ends.
NoStepLimit ==
    /\ [](StayForever =>
              /\ pc \notin {"trim_right", "trim_left", "done"}
              /\ m_final_state = Unbound
              /\ pc = "loop" => KeyPresent)
    /\ [][(pc = "loop" /\ KeyPresent) => pc' = "loop"]_vars
    /\ (pc = "loop" /\ ~KeyPresent) ~> (pc = "done")
    /\ (pc \in {"trim_right", "trim_left"}) ~> (pc = "done")
    /\ StayForever ~> (pc = "loop" /\ lookups = MaxLookups)

\* The machine that stays forever, still in the loop after more steps than
\* the counter counts.
NoStepLimitWitness ==
    /\ StayForever
    /\ pc = "loop"
    /\ lookups = MaxLookups
    /\ tape = input
====
